---- MODULE Spec2Model ----
(***************************************************************************)
(* Model of the sales analyzer (src/analyzer.py): the SalesAnalyzer's six  *)
(* grouped views and its report assembler, over a small family of Record   *)
(* Sets; of the data preparation (src/data_loader.py); of the consumers of *)
(* a report (src/visualizer.py, src/plotly_simple.py, export_results of    *)
(* src/main.py); and of SalesAnalysisSystem.run (src/main.py).             *)
(*                                                                         *)
(* Specifications.  Spec: an analyzer and any calls of its methods.        *)
(* SpecFine: the same on amounts with a third decimal.  SpecConsumers: a   *)
(* report handed to its consumers.  SpecRun: one run of the system, from   *)
(* the file to the export.                                                 *)
(*                                                                         *)
(* Numbers.  A pandas float cell is a record [kind, v, d]: kind "num" for   *)
(* the exact rational v / (1000 * d) (thousandths: one digit more than the *)
(* two decimals the code rounds to), kind "nan", or kind "inf".  Sums,     *)
(* quotients and round-half-to-even (numpy's rule) are exact, so binary    *)
(* floating-point error is outside the model.                              *)
(*                                                                         *)
(* Names.  Output column labels and report keys are Cyrillic in the source *)
(* and are written here with the names of the specification:               *)
(*   total_revenue      'Общая_выручка'                                    *)
(*   transaction_count  'Количество_продаж'                                *)
(*   average_ticket     'Средний_чек'                                      *)
(*   total_profit       'Прибыль'                                          *)
(*   units_sold         'Количество_товаров'                               *)
(*   market_share_pct   'Доля_рынка_%'                                     *)
(*   efficiency         'Эффективность'                                    *)
(*   time_series 'Временной_анализ', category 'Анализ_по_категориям',      *)
(*   region 'Анализ_по_регионам', sales_rep 'Анализ_продавцов',            *)
(*   top_products 'Топ_продукты'.                                          *)
(***************************************************************************)
EXTENDS Integers, Sequences, FiniteSets, TLC

VARIABLES data, data0, last, calls, out,
          pc, stages, env, loader_data, raw_data

vars == <<data, data0, last, calls, out, pc, stages, env, loader_data, raw_data>>

\* The variables of a run of SalesAnalysisSystem.run.
runvars == <<pc, stages, env, loader_data, raw_data>>

----------------------------------------------------------------------------
(* Bounds of the model *)

MaxRows == 2

MaxN == 2

MaxCalls == 2

----------------------------------------------------------------------------
(* Numbers *)

Decimals == 2

Scale == 10 ^ (Decimals + 1)

Step == Scale \div (10 ^ Decimals)

\* The cell holding x / 1000.
F(x) == [kind |-> "num", v |-> x, d |-> 1]

RECURSIVE GCD(_, _)
GCD(a, b) == IF b = 0 THEN a ELSE GCD(b, a % b)

Abs(x) == IF x < 0 THEN 0 - x ELSE x

\* The cell holding the exact quotient x / (1000 * y), y > 0, not yet
\* rounded, in lowest terms.
Q(x, y) ==
    LET g == GCD(Abs(x), y)
    IN  [kind |-> "num", v |-> x \div g, d |-> y \div g]

NaN == [kind |-> "nan", v |-> 0, d |-> 1]

\* Signed infinity (s is 1 or -1).
Inf(s) == [kind |-> "inf", v |-> s, d |-> 1]

IsNum(c) == c.kind = "num"

\* The integer nearest to num/den (den > 0), ties to the even neighbour.
RoundHalfEven(num, den) ==
    LET q == num \div den
        r == num % den
    IN  IF 2 * r < den THEN q
        ELSE IF 2 * r > den THEN q + 1
        ELSE IF q % 2 = 0 THEN q ELSE q + 1

\* x.round(2) of a cell; NaN and infinity stay as they are.
round(c) == IF IsNum(c) THEN F(Step * RoundHalfEven(c.v, c.d * Step)) ELSE c

\* a / b on two cells, with IEEE division by zero.
Div(a, b) ==
    IF a.kind = "nan" \/ b.kind = "nan" THEN NaN
    ELSE IF a.kind = "inf" THEN (IF b.kind = "inf" THEN NaN
                                 ELSE Inf(IF b.v < 0 THEN 0 - a.v ELSE a.v))
    ELSE IF b.kind = "inf" THEN F(0)
    ELSE IF b.v = 0 THEN (IF a.v = 0 THEN NaN ELSE Inf(IF a.v > 0 THEN 1 ELSE -1))
    ELSE LET g == GCD(Abs(a.v), Abs(b.v))
             n == (a.v \div g) * b.d * Scale
             m == a.d * (b.v \div g)
         IN  IF m > 0 THEN Q(n, m) ELSE Q(0 - n, 0 - m)

\* a * k on a cell, k a positive integer.
Mul(a, k) == IF IsNum(a) THEN Q(a.v * k, a.d) ELSE a

----------------------------------------------------------------------------
(* Sequences *)

Range(s) == {s[i] : i \in 1..Len(s)}

IndexOf(s, x) == CHOOSE i \in 1..Len(s) : s[i] = x

Min(a, b) == IF a < b THEN a ELSE b

Max(a, b) == IF a > b THEN a ELSE b

RECURSIVE SortedSeq(_)
\* The elements of a finite set of integers, ascending.
SortedSeq(S) ==
    IF S = {} THEN <<>>
    ELSE LET m == CHOOSE x \in S : \A y \in S : x <= y
         IN  <<m>> \o SortedSeq(S \ {m})

RECURSIVE SeqsUpTo(_, _)
\* All sequences over S of length at most n.
SeqsUpTo(S, n) ==
    IF n = 0 THEN {<<>>}
    ELSE LET shorter == SeqsUpTo(S, n - 1)
         IN  shorter \cup {Append(s, x) : s \in {t \in shorter : Len(t) = n - 1}, x \in S}

----------------------------------------------------------------------------
(* The Record Set: self.data *)

GroupColumns ==
    {"Sale_Date", "Product_Category", "Region", "Sales_Rep", "Customer_Type", "Product_ID"}

MeasureColumns == {"Sales_Amount", "Quantity_Sold", "Profit"}

AllColumns == GroupColumns \cup MeasureColumns

Keys == {1, 2}

AmountKinds == {"null", "zero", "positive"}

\* The Sales_Amount of a record of key k: missing, 0, or 50 (key 1), 70 (key 2).
Amount(k, kind) ==
    CASE kind = "null"     -> NaN
      [] kind = "zero"     -> F(0)
      [] kind = "positive" -> F((30 + 20 * k) * Scale)

UnitCost == 40 * Scale

\* Profit as data preparation derives it: Sales_Amount - Unit_Cost * Quantity_Sold.
ProfitOf(a, q) == IF IsNum(a) THEN F(a.v - UnitCost * q) ELSE NaN

\* One transaction record.  The categorical columns carry the key k, the
\* quantity is 1 for key 1 and 3 for key 2, and the sale is dated in month k
\* of 2023, on the 20th when it has a positive amount and on the 5th otherwise.
Rec(k, kind) ==
    LET q == 2 * k - 1
        a == Amount(k, kind)
    IN  [ Sale_Date        |-> [year |-> 2023, month |-> k,
                                day |-> IF kind = "positive" THEN 20 ELSE 5],
          Product_Category |-> k,
          Region           |-> k,
          Sales_Rep        |-> k,
          Customer_Type    |-> k,
          Product_ID       |-> k,
          Sales_Amount     |-> a,
          Quantity_Sold    |-> F(q * Scale),
          Profit           |-> ProfitOf(a, q) ]

Records == {Rec(k, kind) : k \in Keys, kind \in AmountKinds}

\* The schemas: every column present, one column missing, or one grouping
\* column and one measure column missing.
ColumnSets ==
    {AllColumns} \cup {AllColumns \ {c} : c \in AllColumns}
        \cup {AllColumns \ {g, m} : g \in GroupColumns, m \in MeasureColumns}

RecordSets == [cols : ColumnSets, rows : SeqsUpTo(Records, MaxRows)]

----------------------------------------------------------------------------
(* Results: a DataFrame, or the exception the call raised *)

Frame(cols, rows) == [raised |-> "", cols |-> cols, rows |-> rows]

\* pd.DataFrame()
EmptyFrame == Frame(<<>>, <<>>)

Raised(e) == [raised |-> e, cols |-> <<>>, rows |-> <<>>]

\* DataFrame.empty
empty(f) == Len(f.cols) = 0 \/ Len(f.rows) = 0

----------------------------------------------------------------------------
(* The pandas operations the analyzer uses *)

RECURSIVE SumV(_)
\* Sum of the numeric cells of a sequence of cells (NaN is skipped).
SumV(cells) ==
    IF cells = <<>> THEN 0
    ELSE (IF IsNum(Head(cells)) THEN Head(cells).v ELSE 0) + SumV(Tail(cells))

CountV(cells) == Cardinality({i \in 1..Len(cells) : IsNum(cells[i])})

\* One groupby reduction over the cells of a group.  The data cells are in
\* thousandths (d = 1).
Reduce(fn, cells) ==
    CASE fn = "sum"   -> F(SumV(cells))
      [] fn = "count" -> F(CountV(cells) * Scale)
      [] fn = "mean"  -> IF CountV(cells) = 0 THEN NaN
                         ELSE Q(SumV(cells), CountV(cells))

Column(rows, col) == [i \in 1..Len(rows) |-> rows[i][col]]

GroupRows_up_to_key(rows, by, k) == SelectSeq(rows, LAMBDA r : r[by] <= k)

GroupRows(rows, by, k) == SelectSeq(rows, LAMBDA r : r[by] = k)

\* df.groupby(by).agg({...}): aggs is the flattened dictionary, a sequence
\* of [col, fn].  A grouping column or a dictionary key that is no column of
\* df raises KeyError, whatever the key's value.  Groups come in ascending
\* key order; a row holds its key and the tuple of its aggregates.
groupby_agg(df, by, aggs) ==
    IF by \notin df.cols THEN Raised("KeyError")
    ELSE IF \E i \in 1..Len(aggs) : aggs[i].col \notin df.cols THEN Raised("KeyError")
    ELSE LET keys == SortedSeq({df.rows[i][by] : i \in 1..Len(df.rows)})
         IN  Frame([i \in 1..Len(aggs) |-> i],
                   [g \in 1..Len(keys) |->
                      [key  |-> keys[g],
                       vals |-> [i \in 1..Len(aggs) |->
                                   Reduce(aggs[i].fn,
                                          Column(GroupRows(df.rows, by, keys[g]),
                                                 aggs[i].col))]]])

\* frame.round(2)
round_frame(f) ==
    IF f.raised # "" THEN f
    ELSE Frame(f.cols,
               [r \in 1..Len(f.rows) |->
                  [key  |-> f.rows[r].key,
                   vals |-> [i \in DOMAIN f.rows[r].vals |-> round(f.rows[r].vals[i])]]])

\* frame.columns = names: ValueError on a length mismatch; the row's values
\* are from then on read by name.
set_columns(f, names) ==
    IF f.raised # "" THEN f
    ELSE IF Len(names) # Len(f.cols) THEN Raised("ValueError")
    ELSE Frame(names,
               [r \in 1..Len(f.rows) |->
                  [key  |-> f.rows[r].key,
                   vals |-> [c \in Range(names) |-> f.rows[r].vals[IndexOf(names, c)]]]])

\* frame[name] = cells (one cell per row)
add_column(f, name, cells) ==
    Frame(Append(f.cols, name),
          [r \in 1..Len(f.rows) |->
             [key  |-> f.rows[r].key,
              vals |-> [c \in Range(f.cols) \cup {name} |->
                          IF c = name THEN cells[r] ELSE f.rows[r].vals[c]]]])

RECURSIVE InsertDesc(_, _, _)
\* r put into the descending sequence s after every row not smaller than it.
InsertDesc(s, r, col) ==
    IF s = <<>> THEN <<r>>
    ELSE IF Head(s).vals[col].v >= r.vals[col].v
         THEN <<Head(s)>> \o InsertDesc(Tail(s), r, col)
         ELSE <<r>> \o s

RECURSIVE SortDesc(_, _)
SortDesc(rows, col) ==
    IF rows = <<>> THEN <<>>
    ELSE InsertDesc(SortDesc(SubSeq(rows, 1, Len(rows) - 1), col), rows[Len(rows)], col)

\* frame.sort_values(col, ascending=False) on a numeric column: rows of equal
\* value keep their order (numpy sorts arrays of up to 16 elements by
\* insertion).
sort_values_unsorted(f, col) == f

sort_values(f, col) ==
    IF f.raised # "" THEN f ELSE Frame(f.cols, SortDesc(f.rows, col))

\* frame.head(n): the first n rows; all but the last -n rows when n < 0.
head(f, n) ==
    IF f.raised # "" THEN f
    ELSE Frame(f.cols,
               SubSeq(f.rows, 1, IF n >= 0 THEN Min(n, Len(f.rows))
                                  ELSE Max(Len(f.rows) + n, 0)))

\* Series.sum() of a column of a frame (NaN is skipped).
column_sum(f, col) == F(SumV([r \in 1..Len(f.rows) |-> f.rows[r].vals[col]]))

\* Sale_Date.dt.strftime('%Y-%m'): "YYYY-MM" as the number YYYYMM, which
\* orders as the text does.
strftime_Y_m(date) == date.year * 100 + date.month

\* 'sum' if 'Profit' in columns else None
profit_agg(df) == [col |-> "Profit", fn |-> IF "Profit" \in df.cols THEN "sum" ELSE "None"]

Agg(col, fn) == [col |-> col, fn |-> fn]

----------------------------------------------------------------------------
(* SalesAnalyzer: the six views *)

DefaultN == 10

\* self.data after analyze_sales_over_time: df = self.data.copy() makes the
\* Month_Year column a column of the copy, and self.data is left as it was.
analyze_sales_over_time_in_place(d) ==
    IF "Sale_Date" \notin d.cols THEN d
    ELSE [d EXCEPT !.cols = (@ \ {"Sale_Date"}) \cup {"Month_Year"}]

analyze_sales_over_time_no_copy(d) ==
    IF "Sale_Date" \notin d.cols THEN d
    ELSE [d EXCEPT !.cols = @ \cup {"Month_Year"}]

analyze_sales_over_time_self_data(d) == d

\* df with df['Month_Year'] = df['Sale_Date'].dt.strftime('%Y-%m')
with_Month_Year(d) ==
    [cols |-> d.cols \cup {"Month_Year"},
     rows |-> [i \in 1..Len(d.rows) |->
                 d.rows[i] @@ ("Month_Year" :> strftime_Y_m(d.rows[i].Sale_Date))]]

analyze_sales_over_time(d) ==
    IF "Sale_Date" \notin d.cols THEN EmptyFrame
    ELSE LET df == with_Month_Year(d)
             monthly_sales ==
                 round_frame(groupby_agg(df, "Month_Year",
                     <<Agg("Sales_Amount", "sum"), Agg("Sales_Amount", "count"),
                       profit_agg(df)>>))
         IN  set_columns(monthly_sales,
                         <<"total_revenue", "transaction_count", "total_profit">>)

analyze_by_category(d) ==
    IF "Product_Category" \notin d.cols THEN EmptyFrame
    ELSE LET category_stats ==
                 set_columns(
                     round_frame(groupby_agg(d, "Product_Category",
                         <<Agg("Sales_Amount", "sum"), Agg("Sales_Amount", "count"),
                           Agg("Sales_Amount", "mean"), profit_agg(d),
                           Agg("Quantity_Sold", "sum")>>)),
                     <<"total_revenue", "transaction_count", "average_ticket",
                       "total_profit", "units_sold">>)
             total_sales == column_sum(category_stats, "total_revenue")
         IN  IF category_stats.raised # "" THEN category_stats
             ELSE sort_values(
                      add_column(category_stats, "market_share_pct",
                          [r \in 1..Len(category_stats.rows) |->
                             round(Mul(Div(category_stats.rows[r].vals["total_revenue"],
                                           total_sales), 100))]),
                      "total_revenue")

analyze_by_region(d) ==
    IF "Region" \notin d.cols THEN EmptyFrame
    ELSE LET region_stats ==
                 set_columns(
                     round_frame(groupby_agg(d, "Region",
                         <<Agg("Sales_Amount", "sum"), Agg("Sales_Amount", "count"),
                           Agg("Sales_Amount", "mean"), profit_agg(d)>>)),
                     <<"total_revenue", "transaction_count", "average_ticket",
                       "total_profit">>)
         IN  sort_values(region_stats, "total_revenue")

analyze_sales_reps(d) ==
    IF "Sales_Rep" \notin d.cols THEN EmptyFrame
    ELSE LET rep_stats ==
                 set_columns(
                     round_frame(groupby_agg(d, "Sales_Rep",
                         <<Agg("Sales_Amount", "sum"), Agg("Sales_Amount", "count"),
                           Agg("Sales_Amount", "mean"), profit_agg(d)>>)),
                     <<"total_revenue", "transaction_count", "average_ticket",
                       "total_profit">>)
         IN  IF rep_stats.raised # "" THEN rep_stats
             ELSE IF "transaction_count" \in Range(rep_stats.cols)
                     /\ column_sum(rep_stats, "transaction_count").v > 0
                  THEN sort_values(
                           add_column(rep_stats, "efficiency",
                               [r \in 1..Len(rep_stats.rows) |->
                                  round(Div(rep_stats.rows[r].vals["total_revenue"],
                                            rep_stats.rows[r].vals["transaction_count"]))]),
                           "total_revenue")
                  ELSE sort_values(rep_stats, "total_revenue")

analyze_by_customer_type(d) ==
    IF "Customer_Type" \notin d.cols THEN EmptyFrame
    ELSE set_columns(
             round_frame(groupby_agg(d, "Customer_Type",
                 <<Agg("Sales_Amount", "sum"), Agg("Sales_Amount", "count"),
                   Agg("Sales_Amount", "mean"), profit_agg(d)>>)),
             <<"total_revenue", "transaction_count", "average_ticket", "total_profit">>)

\* The second output column is the sum of Quantity_Sold, under the label the
\* other views give the transaction count.
product_stats(d) ==
    set_columns(
        round_frame(groupby_agg(d, "Product_ID",
            <<Agg("Sales_Amount", "sum"), Agg("Quantity_Sold", "sum"), profit_agg(d)>>)),
        <<"total_revenue", "transaction_count", "total_profit">>)

get_top_products_unguarded(d, n) ==
    head(sort_values(product_stats(d), "total_revenue"), n)

get_top_products_head_first(d, n) ==
    IF "Product_ID" \notin d.cols THEN EmptyFrame
    ELSE sort_values(head(product_stats(d), n), "total_revenue")

get_top_products(d, n) ==
    IF "Product_ID" \notin d.cols THEN EmptyFrame
    ELSE head(sort_values(product_stats(d), "total_revenue"), n)

----------------------------------------------------------------------------
(* SalesAnalyzer.get_comprehensive_report *)

\* The views in the order the assembler computes them, each under its key.
ReportSteps(d) ==
    << [key |-> "time_series",  res |-> analyze_sales_over_time(d)],
       [key |-> "category",     res |-> analyze_by_category(d)],
       [key |-> "region",       res |-> analyze_by_region(d)],
       [key |-> "sales_rep",    res |-> analyze_sales_reps(d)],
       [key |-> "top_products", res |-> get_top_products(d, DefaultN)] >>

\* An exception of a view leaves the method at that statement: the caller
\* gets the exception and no dictionary.
get_comprehensive_report(d) ==
    LET steps  == ReportSteps(d)
        failed == {i \in 1..Len(steps) : steps[i].res.raised # ""}
    IN  IF failed # {}
        THEN [raised |-> steps[CHOOSE i \in failed : \A j \in failed : i <= j].res.raised,
              views  |-> <<>>]
        ELSE [raised |-> "",
              views  |-> [k \in {steps[i].key : i \in 1..Len(steps)} |->
                            steps[CHOOSE i \in 1..Len(steps) : steps[i].key = k].res]]

----------------------------------------------------------------------------
(* Data preparation: DataLoader.load_csv and DataLoader.clean_data.  A     *)
(* table read from a file is a record [cols, rows] like the Record Set.    *)
(* A categorical cell is a key, or Missing for an empty cell; a date cell  *)
(* is the text of a date, a triple <<year, month, day>>, until to_datetime *)
(* makes it a date or NaT.  Quantities are whole numbers.                  *)

\* self.data = None
None == [cols |-> {}, rows |-> <<>>]

\* An empty cell of a categorical column.
Missing == 0

\* 'Неизвестно'
Unknown == 3

NaT == [year |-> 0, month |-> 0, day |-> 0]

required_cols ==
    {"Product_ID", "Sale_Date", "Sales_Rep", "Region", "Sales_Amount",
     "Quantity_Sold", "Product_Category"}

\* load_csv gives the table read when it has the required columns, None
\* when it has not or when the file cannot be read (table = None).
load_csv_requires_nothing(table) == table

load_csv(table) ==
    IF table = None THEN None
    ELSE IF required_cols \ table.cols # {} THEN None
    ELSE table

IsLeap(y) == (y % 4 = 0 /\ y % 100 # 0) \/ y % 400 = 0

DaysIn(y, m) ==
    IF m = 2 THEN (IF IsLeap(y) THEN 29 ELSE 28)
    ELSE IF m \in {4, 6, 9, 11} THEN 30 ELSE 31

\* pd.to_datetime(text, errors='coerce')
to_datetime(text) ==
    IF /\ text[2] \in 1..12
       /\ text[3] \in 1..DaysIn(text[1], text[2])
    THEN [year |-> text[1], month |-> text[2], day |-> text[3]]
    ELSE NaT

\* Is the cell of column col of row r empty?
isnull(r, col) ==
    CASE col = "Sale_Date" -> r[col] = NaT
      [] col \in {"Sales_Amount", "Quantity_Sold", "Unit_Cost"} -> ~IsNum(r[col])
      [] OTHER -> r[col] = Missing

important_cols == {"Product_ID", "Sale_Date", "Sales_Amount"}

\* df.dropna(subset=[the important columns df has])
dropna(df) ==
    [df EXCEPT !.rows = SelectSeq(df.rows,
        LAMBDA r : \A col \in important_cols \cap df.cols : ~isnull(r, col))]

\* The text columns a file of the model can have (the source lists
\* Payment_Method and Sales_Channel as well).
text_cols == {"Sales_Rep", "Region", "Product_Category", "Customer_Type"}

\* The numeric columns a file of the model can have (the source lists
\* Unit_Price and Discount as well).
num_cols == {"Quantity_Sold", "Unit_Cost"}

RECURSIVE SortedValues(_)
\* The numbers of a sequence of cells, ascending, duplicates kept.
SortedValues(cells) ==
    LET nums == SelectSeq(cells, IsNum)
    IN  IF nums = <<>> THEN <<>>
        ELSE LET i == CHOOSE i \in 1..Len(nums) :
                          \A j \in 1..Len(nums) : nums[i].v <= nums[j].v
             IN  <<nums[i].v>> \o
                 SortedValues([j \in 1..(Len(nums) - 1) |->
                                  IF j < i THEN nums[j] ELSE nums[j + 1]])

\* Series.median() of the cells that hold a number, 0 when none does.
median_or_0(cells) ==
    LET s == SortedValues(cells)
        n == Len(s)
    IN  IF n = 0 THEN F(0)
        ELSE IF n % 2 = 1 THEN F(s[(n + 1) \div 2])
        ELSE F((s[n \div 2] + s[(n \div 2) + 1]) \div 2)

\* df[col] = df[col].fillna(value[col]) for each column of value that df has.
fillna(df, value) ==
    [df EXCEPT !.rows = [i \in 1..Len(df.rows) |->
        [c \in DOMAIN df.rows[i] |->
            IF c \in DOMAIN value \cap df.cols /\ isnull(df.rows[i], c)
            THEN value[c] ELSE df.rows[i][c]]]]

\* Sales_Amount - Unit_Cost * Quantity_Sold
profit(r) ==
    IF IsNum(r.Sales_Amount) /\ IsNum(r.Unit_Cost) /\ IsNum(r.Quantity_Sold)
    THEN F(r.Sales_Amount.v - ((r.Unit_Cost.v * r.Quantity_Sold.v) \div Scale))
    ELSE NaN

\* (Profit / Sales_Amount * 100).round(2)
profit_margin(r) ==
    IF IsNum(Div(r.Profit, r.Sales_Amount))
    THEN round(Mul(Div(r.Profit, r.Sales_Amount), 100))
    ELSE Div(r.Profit, r.Sales_Amount)

\* df[col] = values, one value per row, for a new or an existing column.
assign(df, col, values) ==
    [cols |-> df.cols \cup {col},
     rows |-> [i \in 1..Len(df.rows) |->
                 [c \in DOMAIN df.rows[i] \cup {col} |->
                     IF c = col THEN values[i] ELSE df.rows[i][c]]]]

weekdays ==
    <<"Sunday", "Monday", "Tuesday", "Wednesday", "Thursday", "Friday", "Saturday">>

\* Series.dt.day_name()
day_name(date) ==
    LET t == <<0, 3, 2, 5, 0, 3, 5, 1, 4, 6, 2, 4>>
        y == IF date.month < 3 THEN date.year - 1 ELSE date.year
    IN  weekdays[1 + ((y + (y \div 4) - (y \div 100) + (y \div 400)
                         + t[date.month] + date.day) % 7)]

clean_data(self_data) ==
    IF self_data = None THEN None
    ELSE LET rows(df) == 1..Len(df.rows)
             df1 == IF "Sale_Date" \in self_data.cols
                    THEN assign(self_data, "Sale_Date",
                             [i \in rows(self_data) |->
                                 to_datetime(self_data.rows[i].Sale_Date)])
                    ELSE self_data
             df2 == dropna(df1)
             df3 == fillna(df2, [c \in text_cols |-> Unknown])
             df4 == fillna(df3, [c \in num_cols |-> median_or_0(Column(df3.rows, c))])
             df5 == IF {"Sales_Amount", "Unit_Cost", "Quantity_Sold"} \subseteq df4.cols
                    THEN assign(df4, "Profit", [i \in rows(df4) |-> profit(df4.rows[i])])
                    ELSE df4
             df6 == IF {"Sales_Amount", "Profit"} \subseteq df5.cols
                    THEN assign(df5, "Profit_Margin",
                             [i \in rows(df5) |-> profit_margin(df5.rows[i])])
                    ELSE df5
             date(i) == df6.rows[i].Sale_Date
         IN  IF "Sale_Date" \in df6.cols
             THEN assign(assign(assign(assign(df6,
                      "Year",    [i \in rows(df6) |-> date(i).year]),
                      "Month",   [i \in rows(df6) |-> date(i).month]),
                      "Day",     [i \in rows(df6) |-> date(i).day]),
                      "Weekday", [i \in rows(df6) |-> day_name(date(i))])
             ELSE df6

----------------------------------------------------------------------------
(* The consumers of a report: DataVisualizer.create_dashboard,             *)
(* SimplePlotlyVisualizer.create_simple_dashboard and                      *)
(* SalesAnalysisSystem.export_results.  What a consumer did is a record:   *)
(* shown, the views it drew or wrote; read, the views whose rows it read   *)
(* or tried to read; raised, the exception caught inside it; fallback,     *)
(* whether it went on to _save_to_csv.                                     *)

Outcome(by, shown, read, raised, fallback) ==
    [by |-> by, shown |-> shown, read |-> read, raised |-> raised,
     fallback |-> fallback]

\* No consumer has run.
NoOutcome == Outcome("none", {}, {}, "", FALSE)

\* 'key' in analyses and not analyses['key'].empty
present_and_not_empty(analyses, key) ==
    key \in DOMAIN analyses /\ ~empty(analyses[key])

\* The four views the dashboards draw, in the order of their if statements.
DashboardViews == <<"time_series", "category", "region", "sales_rep">>

\* Each chart is drawn from the rows of its view, and only if the view is in
\* the report and not empty.
create_dashboard(analyses) ==
    LET drawn == {k \in Range(DashboardViews) : present_and_not_empty(analyses, k)}
    IN  Outcome("create_dashboard", drawn, drawn, "", FALSE)

\* The same guards; the summary page is made when any chart was.
create_simple_dashboard(analyses) ==
    LET figs == {k \in Range(DashboardViews) : present_and_not_empty(analyses, k)}
    IN  Outcome("create_simple_dashboard", figs, figs, "", FALSE)

\* The views the summary sheet takes its best entry from.
SummaryViews == <<"category", "region", "sales_rep">>

\* for name, data in analyses.items(): if not data.empty: write it
not_empty_views(analyses) == {k \in DOMAIN analyses : ~empty(analyses[k])}

\* The summary sheet reads .index[0] and .iloc[0] of a view whenever its key
\* is in the report: IndexError when the view has no row.
summary_sheet(analyses) ==
    LET asked == {k \in Range(SummaryViews) : k \in DOMAIN analyses}
    IN  [read   |-> asked,
         raised |-> IF \E k \in asked : Len(analyses[k].rows) = 0
                    THEN "IndexError" ELSE ""]

\* The Excel workbook is tried first; any exception in it is caught and the
\* views are saved with _save_to_csv, which skips the empty ones.
export_results(analyses) ==
    LET sheets  == not_empty_views(analyses)
        summary == summary_sheet(analyses)
    IN  IF summary.raised = ""
        THEN Outcome("export_results", sheets, sheets \cup summary.read, "", FALSE)
        ELSE Outcome("export_results", not_empty_views(analyses),
                     sheets \cup summary.read, summary.raised, TRUE)

----------------------------------------------------------------------------
(* The inputs of a run: whether a file path is given or chosen, what the   *)
(* file holds, and whether plotly could be imported.                       *)

\* What can be wrong with a line of the file: an impossible date, or no
\* quantity and no customer type.
Defects == {"none", "bad_date", "no_quantity"}

RawRec(k, kind, defect) ==
    [ Product_ID       |-> k,
      Sale_Date        |-> IF defect = "bad_date" THEN <<2023, 2, 30>>
                           ELSE <<2023, k, 5>>,
      Sales_Rep        |-> k,
      Region           |-> k,
      Product_Category |-> k,
      Customer_Type    |-> IF defect = "no_quantity" THEN Missing ELSE k,
      Sales_Amount     |-> Amount(k, kind),
      Quantity_Sold    |-> IF defect = "no_quantity" THEN NaN
                           ELSE F((2 * k - 1) * Scale),
      Unit_Cost        |-> F(UnitCost) ]

\* The lines a file is made of: any key and amount without defect, one line
\* with an impossible date and one without quantity.
RawRecords ==
    {RawRec(k, kind, "none") : k \in Keys, kind \in AmountKinds}
        \cup {RawRec(1, "positive", "bad_date"), RawRec(2, "positive", "no_quantity")}

optional_cols == {"Unit_Cost", "Customer_Type"}

\* The columns of the file: the required ones with any of the optional
\* ones, or all but Region.
RawColumnSets ==
    {required_cols \cup o : o \in SUBSET optional_cols}
        \cup {(required_cols \cup optional_cols) \ {"Region"}}

\* What pd.read_csv gives: a table, or None for a file that cannot be read.
Files == {None} \cup [cols : RawColumnSets, rows : SeqsUpTo(RawRecords, MaxRows)]

Envs ==
    {[file_path |-> FALSE, file |-> None, HAS_PLOTLY |-> h] : h \in BOOLEAN}
        \cup [file_path : {TRUE}, file : Files, HAS_PLOTLY : BOOLEAN]

\* No run of the system: the analyzer is used on its own.
NoRun ==
    /\ pc = "none"
    /\ stages = <<>>
    /\ env = [file_path |-> FALSE, file |-> None, HAS_PLOTLY |-> FALSE]
    /\ loader_data = None
    /\ raw_data = None

----------------------------------------------------------------------------
(* The state machine: an analyzer constructed on a Record Set, then any    *)
(* sequence of calls.  last is the latest call and what it gave.           *)

Views == {"time_series", "category", "region", "sales_rep", "customer_type", "top_products"}

\* The N passed to get_top_products: a number of rows.
TopNs == 0..MaxN

\* SalesAnalyzer.__init__: self.data = data
Init ==
    /\ data \in RecordSets
    /\ data0 = data
    /\ last = [op |-> "init", n |-> 0, res |-> EmptyFrame]
    /\ calls = 0
    /\ out = NoOutcome
    /\ NoRun

\* One more call of a method of the analyzer, up to MaxCalls of them.
Called ==
    /\ calls < MaxCalls
    /\ calls' = calls + 1
    /\ UNCHANGED <<out, runvars>>

Call_analyze_sales_over_time ==
    /\ Called
    /\ last' = [op |-> "time_series", n |-> 0, res |-> analyze_sales_over_time(data)]
    /\ data' = analyze_sales_over_time_self_data(data)
    /\ UNCHANGED data0

Call_analyze_by_category ==
    /\ Called
    /\ last' = [op |-> "category", n |-> 0, res |-> analyze_by_category(data)]
    /\ UNCHANGED <<data, data0>>

Call_analyze_by_region ==
    /\ Called
    /\ last' = [op |-> "region", n |-> 0, res |-> analyze_by_region(data)]
    /\ UNCHANGED <<data, data0>>

Call_analyze_sales_reps ==
    /\ Called
    /\ last' = [op |-> "sales_rep", n |-> 0, res |-> analyze_sales_reps(data)]
    /\ UNCHANGED <<data, data0>>

Call_analyze_by_customer_type ==
    /\ Called
    /\ last' = [op |-> "customer_type", n |-> 0, res |-> analyze_by_customer_type(data)]
    /\ UNCHANGED <<data, data0>>

Call_get_top_products ==
    \E n \in TopNs :
        /\ Called
        /\ last' = [op |-> "top_products", n |-> n, res |-> get_top_products(data, n)]
        /\ UNCHANGED <<data, data0>>

Call_get_comprehensive_report ==
    /\ Called
    /\ last' = [op |-> "report", n |-> 0, res |-> get_comprehensive_report(data)]
    /\ data' = analyze_sales_over_time_self_data(data)
    /\ UNCHANGED data0

Next ==
    \/ Call_analyze_sales_over_time
    \/ Call_analyze_by_category
    \/ Call_analyze_by_region
    \/ Call_analyze_sales_reps
    \/ Call_analyze_by_customer_type
    \/ Call_get_top_products
    \/ Call_get_comprehensive_report

Spec == Init /\ [][Next]_vars

----------------------------------------------------------------------------
(* A report and its consumers: the report get_comprehensive_report        *)
(* returned is handed to a consumer.                                       *)

\* The report in hand, when the latest call returned one.
HasReport == last.op = "report" /\ last.res.raised = ""

Call_create_dashboard ==
    /\ HasReport
    /\ out' = create_dashboard(last.res.views)
    /\ UNCHANGED <<data, data0, last, calls, runvars>>

Call_create_simple_dashboard ==
    /\ HasReport
    /\ out' = create_simple_dashboard(last.res.views)
    /\ UNCHANGED <<data, data0, last, calls, runvars>>

Call_export_results ==
    /\ HasReport
    /\ out' = export_results(last.res.views)
    /\ UNCHANGED <<data, data0, last, calls, runvars>>

NextConsumers ==
    \/ Call_get_comprehensive_report
    \/ Call_create_dashboard
    \/ Call_create_simple_dashboard
    \/ Call_export_results

SpecConsumers == Init /\ [][NextConsumers]_vars

----------------------------------------------------------------------------
(* SalesAnalysisSystem.run: pc is the statement the run is at, stages the  *)
(* steps it has entered so far.                                            *)

\* DataFrame.empty of a table
table_empty(df) == df.cols = {} \/ df.rows = <<>>

InitRun ==
    /\ env \in Envs
    /\ pc = "start"
    /\ stages = <<>>
    /\ loader_data = None
    /\ raw_data = None
    /\ data = None
    /\ data0 = None
    /\ last = [op |-> "init", n |-> 0, res |-> EmptyFrame]
    /\ calls = 0
    /\ out = NoOutcome

\* The run enters the stage named and goes on at statement next.
Enter(stage, next) ==
    /\ stages' = Append(stages, stage)
    /\ pc' = next
    /\ UNCHANGED <<env, calls>>

\* if not file_path: file_path = self.get_file_path(); if not file_path: return
Run_get_file_path ==
    /\ pc = "start"
    /\ pc' = IF env.file_path THEN "load" ELSE "returned"
    /\ UNCHANGED <<data, data0, last, calls, out, stages, env, loader_data, raw_data>>

\* raw_data = self.loader.load_csv(file_path); if raw_data is None: return
Run_load_csv ==
    /\ pc = "load"
    /\ loader_data' = env.file
    /\ raw_data' = load_csv(env.file)
    /\ Enter("load", IF raw_data' = None THEN "returned" ELSE "clean")
    /\ UNCHANGED <<data, data0, last, out>>

\* self.data = self.loader.clean_data()
\* if self.data is None or self.data.empty: return
Run_clean_data ==
    /\ pc = "clean"
    /\ data' = clean_data(loader_data)
    /\ Enter("clean", IF data' = None \/ table_empty(data') THEN "returned"
                      ELSE "analyze")
    /\ UNCHANGED <<data0, last, out, loader_data, raw_data>>

\* self.analyzer = SalesAnalyzer(self.data), the three analyses printed and
\* the comprehensive report; an exception of any of them leaves run.
Run_analyze ==
    /\ pc = "analyze"
    /\ data0' = data
    /\ LET printed == <<analyze_by_category(data), analyze_by_region(data),
                        analyze_sales_reps(data)>>
           comprehensive_report == get_comprehensive_report(data)
       IN  /\ last' = [op |-> "report", n |-> 0, res |-> comprehensive_report]
           /\ Enter("analyze",
                    IF \/ \E i \in 1..Len(printed) : printed[i].raised # ""
                       \/ comprehensive_report.raised # ""
                    THEN "raised" ELSE "static")
    /\ UNCHANGED <<data, out, loader_data, raw_data>>

\* self.visualizer.create_dashboard(comprehensive_report, 'static_charts')
Run_create_dashboard ==
    /\ pc = "static"
    /\ out' = create_dashboard(last.res.views)
    /\ Enter("static", IF env.HAS_PLOTLY THEN "interactive" ELSE "export")
    /\ UNCHANGED <<data, data0, last, loader_data, raw_data>>

\* if HAS_PLOTLY: self.plotly_viz.create_simple_dashboard(...)
Run_create_simple_dashboard ==
    /\ pc = "interactive"
    /\ out' = create_simple_dashboard(last.res.views)
    /\ Enter("interactive", "export")
    /\ UNCHANGED <<data, data0, last, loader_data, raw_data>>

\* self.export_results(comprehensive_report)
Run_export_results ==
    /\ pc = "export"
    /\ out' = export_results(last.res.views)
    /\ Enter("export", "returned")
    /\ UNCHANGED <<data, data0, last, loader_data, raw_data>>

NextRun ==
    \/ Run_get_file_path
    \/ Run_load_csv
    \/ Run_clean_data
    \/ Run_analyze
    \/ Run_create_dashboard
    \/ Run_create_simple_dashboard
    \/ Run_export_results

SpecRun == InitRun /\ [][NextRun]_vars

----------------------------------------------------------------------------
(* The analyzer on amounts with a third decimal *)

\* Amounts in thousandths: 1.004, 2.008 and 4.016.
FineAmounts == {1004, 2008, 4016}

\* A record of key k whose amount is a / 1000.
FineRec(k, a) ==
    [Rec(k, "positive") EXCEPT !.Sales_Amount = F(a),
                               !.Profit = ProfitOf(F(a), 2 * k - 1)]

FineRecords == {FineRec(k, a) : k \in Keys, a \in FineAmounts}

FineRecordSets == [cols : {AllColumns}, rows : SeqsUpTo(FineRecords, MaxRows)]

InitFine ==
    /\ data \in FineRecordSets
    /\ data0 = data
    /\ last = [op |-> "init", n |-> 0, res |-> EmptyFrame]
    /\ calls = 0
    /\ out = NoOutcome
    /\ NoRun

SpecFine == InitFine /\ [][Next]_vars

----------------------------------------------------------------------------
(* What the claims speak of *)

GroupColumnOf(op) ==
    CASE op = "time_series"   -> "Sale_Date"
      [] op = "category"      -> "Product_Category"
      [] op = "region"        -> "Region"
      [] op = "sales_rep"     -> "Sales_Rep"
      [] op = "customer_type" -> "Customer_Type"
      [] op = "top_products"  -> "Product_ID"

\* The measure columns a view aggregates, Profit aside.
MeasuresOf(op) ==
    IF op \in {"category", "top_products"} THEN {"Sales_Amount", "Quantity_Sold"}
    ELSE {"Sales_Amount"}

\* The view op computed on the Record Set d (top products with the default N).
ViewOn(op, d) ==
    CASE op = "time_series"   -> analyze_sales_over_time(d)
      [] op = "category"      -> analyze_by_category(d)
      [] op = "region"        -> analyze_by_region(d)
      [] op = "sales_rep"     -> analyze_sales_reps(d)
      [] op = "customer_type" -> analyze_by_customer_type(d)
      [] op = "top_products"  -> get_top_products(d, DefaultN)

\* The call (op, n) made on an analyzer whose Record Set is d.
CallOn(op, n, d) ==
    CASE op = "report"       -> get_comprehensive_report(d)
      [] op = "top_products" -> get_top_products(d, n)
      [] OTHER               -> ViewOn(op, d)

Revenue(row) == row.vals["total_revenue"].v

\* The products of the Record Set (none when it has no Product_ID column)
\* and the revenue of each, summed from the records.
ProductsOf(d) ==
    IF "Product_ID" \in d.cols THEN {d.rows[i].Product_ID : i \in 1..Len(d.rows)}
    ELSE {}

ProductRevenue(d, p) ==
    round(F(SumV(Column(GroupRows(d.rows, "Product_ID", p), "Sales_Amount")))).v

----------------------------------------------------------------------------
(* C1..C10 *)

\* C1: a view called on a Record Set that lacks the view's grouping column
\* returns the empty frame and does not raise, whatever else is missing.
C1_MissingGroupColumnGivesEmpty ==
    (last.op \in Views /\ GroupColumnOf(last.op) \notin data.cols)
        => last.res = EmptyFrame

\* C1 happens: top products asked of records that have no Product_ID and no
\* Profit column either, and the answer is the empty frame.
C1_Witness ==
    /\ last.op = "top_products"
    /\ "Product_ID" \notin data.cols
    /\ "Profit" \notin data.cols
    /\ data.rows # <<>>
    /\ last.res = EmptyFrame

\* C2 (as claimed): the mapping the report assembler returns has all six
\* report keys.
C2_ReportHasAllSixKeys ==
    (last.op = "report" /\ last.res.raised = "")
        => Views \subseteq DOMAIN last.res.views

\* C3 (as claimed): with the grouping column and the other measures present
\* but no Profit column, a view completes and its rows have no profit column.
C3_NoProfitOmitsProfitColumn ==
    (/\ last.op \in Views
     /\ GroupColumnOf(last.op) \in data.cols
     /\ MeasuresOf(last.op) \subseteq data.cols
     /\ "Profit" \notin data.cols)
        => (last.res.raised = "" /\ "total_profit" \notin Range(last.res.cols))

\* C4 (as claimed): with the grouping column present and a measure column
\* the view aggregates missing, the view returns an empty result and does
\* not raise.
C4_MissingMeasureGivesEmpty ==
    (/\ last.op \in Views
     /\ GroupColumnOf(last.op) \in data.cols
     /\ "Profit" \in data.cols
     /\ ~(MeasuresOf(last.op) \subseteq data.cols))
        => (last.res.raised = "" /\ empty(last.res))

\* C5 (as claimed): when some view fails on the Record Set, the report
\* still carries the result of every view that can be computed on it.
C5_FailureDoesNotBlockOtherViews ==
    (/\ last.op = "report"
     /\ \E w \in Views : ViewOn(w, data).raised # "")
        => \A v \in Views \ {"customer_type"} :
              ViewOn(v, data).raised = ""
                  => /\ last.res.raised = ""
                     /\ v \in DOMAIN last.res.views
                     /\ last.res.views[v] = ViewOn(v, data)

\* C6 (as claimed): on a non-empty Record Set, every record with a sales
\* amount, the market_share_pct values of the rows of the category view sum
\* to 100 within 0.1.
C6_MarketShareSumsTo100 ==
    (/\ last.op = "category"
     /\ last.res.raised = ""
     /\ "Product_Category" \in data.cols
     /\ data.rows # <<>>
     /\ \A i \in 1..Len(data.rows) : IsNum(data.rows[i].Sales_Amount))
        => /\ \A r \in 1..Len(last.res.rows) :
                 IsNum(last.res.rows[r].vals["market_share_pct"])
           /\ Abs(column_sum(last.res, "market_share_pct").v - 100 * Scale)
                 <= Scale \div 10

\* C7: in the result of a view sorted descending by revenue, each row's
\* total revenue is at least the next row's.
C7_SortedDescendingByRevenue ==
    (last.op \in {"category", "region", "sales_rep", "top_products"}
        /\ last.res.raised = "")
        => \A i \in 1..(Len(last.res.rows) - 1) :
              Revenue(last.res.rows[i]) >= Revenue(last.res.rows[i + 1])

\* C7 happens: a view that had to reorder its groups, the later key earning
\* more.
C7_Witness ==
    /\ last.op \in {"category", "region", "sales_rep", "top_products"}
    /\ last.res.raised = ""
    /\ Len(last.res.rows) = 2
    /\ last.res.rows[1].key > last.res.rows[2].key
    /\ Revenue(last.res.rows[1]) > Revenue(last.res.rows[2])

\* The rows of a top-products result are the n best products: n of them (or
\* all, if there are fewer), each with its revenue, none earning less than a
\* product left out.
TopRowsAreTheBest(res, d, n) ==
    LET shown == {res.rows[i].key : i \in 1..Len(res.rows)}
    IN  /\ Len(res.rows) <= n
        /\ Len(res.rows) = Min(n, Cardinality(ProductsOf(d)))
        /\ Cardinality(shown) = Len(res.rows)
        /\ shown \subseteq ProductsOf(d)
        /\ \A i \in 1..Len(res.rows) :
              Revenue(res.rows[i]) = ProductRevenue(d, res.rows[i].key)
        /\ \A p \in ProductsOf(d) \ shown : \A q \in shown :
              ProductRevenue(d, p) <= ProductRevenue(d, q)
        /\ (n = 0 => res.rows = <<>>)

\* C8: for every N passed, the top-products result has at most N rows, the
\* N highest-revenue products (all of them when there are fewer), and none
\* for N = 0.
C8_TopNRows ==
    (last.op = "top_products" /\ last.res.raised = "")
        => TopRowsAreTheBest(last.res, data, last.n)

\* C8 happens: N = 1 with two products, and the product shown is the later
\* key, which earned more.
C8_Witness ==
    /\ last.op = "top_products"
    /\ last.res.raised = ""
    /\ last.n = 1
    /\ Cardinality(ProductsOf(data)) = 2
    /\ Len(last.res.rows) = 1
    /\ last.res.rows[1].key = 2
    /\ ProductRevenue(data, 2) > ProductRevenue(data, 1)

\* C9 (as claimed): a row of the sales-rep view whose transaction count is
\* zero has no efficiency value, whatever the counts of the other rows.
C9_EfficiencyGuardedPerRow ==
    (last.op = "sales_rep" /\ last.res.raised = "")
        => \A r \in 1..Len(last.res.rows) :
              last.res.rows[r].vals["transaction_count"].v = 0
                  => "efficiency" \notin DOMAIN last.res.rows[r].vals

\* C10: every call gives what the same call gives on the analyzer as
\* constructed, so two calls of one operation with one argument give the
\* same output, whatever was called before or between them.
C10_SameCallSameOutput ==
    last.op # "init" => last.res = CallOn(last.op, last.n, data0)

\* C10 happens: a second call has been made, it was the time-series view,
\* and it gave rows.
C10_Witness ==
    /\ calls = 2
    /\ last.op = "time_series"
    /\ last.res.raised = ""
    /\ last.res.rows # <<>>

----------------------------------------------------------------------------
(* C11, C12, C15 *)

\* The records of d whose column col holds k.
RecordsWith(d, col, k) == {i \in 1..Len(d.rows) : d.rows[i][col] = k}

\* Every record of d has a Sales_Amount (the Record Set of the
\* specification: data preparation drops the records without one).
AmountsPresent(d) == \A i \in 1..Len(d.rows) : IsNum(d.rows[i].Sales_Amount)

\* C11 (as claimed): in the top-products view the count column of a
\* product's row is the number of records of that product.
C11_TopCountIsTransactionCount ==
    (/\ last.op = "top_products"
     /\ last.res.raised = ""
     /\ "Product_ID" \in data.cols)
        => \A r \in 1..Len(last.res.rows) :
              last.res.rows[r].vals["transaction_count"]
                  = F(Scale * Cardinality(RecordsWith(data, "Product_ID",
                                                      last.res.rows[r].key)))

\* The rows of a grouped view partition the records of d by the column col:
\* one row per key that occurs, with the sum of the amounts and the number
\* of the records of that key, every record counted once.
RowsPartitionRecords(res, d, col) ==
    LET keys == {d.rows[i][col] : i \in 1..Len(d.rows)}
    IN  /\ Len(res.rows) = Cardinality(keys)
        /\ {res.rows[r].key : r \in 1..Len(res.rows)} = keys
        /\ \A r \in 1..Len(res.rows) :
              LET mine == SelectSeq(d.rows, LAMBDA x : x[col] = res.rows[r].key)
              IN  /\ res.rows[r].vals["total_revenue"]
                        = F(SumV(Column(mine, "Sales_Amount")))
                  /\ res.rows[r].vals["transaction_count"] = F(Scale * Len(mine))
        /\ column_sum(res, "transaction_count") = F(Scale * Len(d.rows))

\* C12: the category, region, sales-rep and customer-type views, on a
\* Record Set that has the columns they need and an amount in every record,
\* have one row per key occurring, with the sum of Sales_Amount and the
\* number of the records of that key; the counts sum to the number of
\* records.
C12_GroupsPartitionRecords ==
    (/\ last.op \in {"category", "region", "sales_rep", "customer_type"}
     /\ last.res.raised = ""
     /\ GroupColumnOf(last.op) \in data.cols
     /\ AmountsPresent(data))
        => RowsPartitionRecords(last.res, data, GroupColumnOf(last.op))

\* C12 happens: two records with amounts, of different customer types, and
\* the customer-type view has a row for each.
C12_Witness ==
    /\ last.op = "customer_type"
    /\ last.res.raised = ""
    /\ AmountsPresent(data)
    /\ Len(data.rows) = 2
    /\ data.rows[1].Customer_Type # data.rows[2].Customer_Type
    /\ Len(last.res.rows) = 2

\* C15: self.data has the columns and the rows the analyzer was constructed
\* with, after any sequence of calls.
C15_RecordSetUnchanged == data = data0

\* C15 happens: the second call was made, the first or the second being the
\* time-series view on records that have a Sale_Date.
C15_Witness ==
    /\ calls >= 2
    /\ last.op \in {"time_series", "report"}
    /\ "Sale_Date" \in data0.cols
    /\ last.res.raised = ""
    /\ data0.rows # <<>>

----------------------------------------------------------------------------
(* C13 *)

\* The keys of the rows are in ascending order.
KeysAscending(res) ==
    \A i \in 1..(Len(res.rows) - 1) : res.rows[i].key < res.rows[i + 1].key

\* The time-series view of d is a frame with one row per month occurring,
\* in ascending month order, with the sum and the number of the month's
\* records and no average-ticket column.
MonthlyRows(res, d) ==
    /\ res.raised = ""
    /\ RowsPartitionRecords(res, with_Month_Year(d), "Month_Year")
    /\ KeysAscending(res)
    /\ "average_ticket" \notin Range(res.cols)

\* C13 (as claimed): on every Record Set with a Sale_Date column (and an
\* amount in every record) the time-series view has one row per month of
\* the records, ascending, with the month's revenue and record count.
C13_OneRowPerMonth ==
    (/\ last.op = "time_series"
     /\ "Sale_Date" \in data.cols
     /\ AmountsPresent(data))
        => MonthlyRows(last.res, data)

----------------------------------------------------------------------------
(* C16 *)

\* The exact sum of the amounts of the records of d whose column col holds k.
GroupSum(d, col, k) ==
    F(SumV(Column(SelectSeq(d.rows, LAMBDA x : x[col] = k), "Sales_Amount")))

\* The exact sum of all the amounts of d.
TotalSum(d) == F(SumV(Column(d.rows, "Sales_Amount")))

\* C16 (as claimed): market_share_pct and efficiency are the exact ratios
\* of the unrounded sums, rounded once.
C16_RatiosRoundedOnce ==
    /\ (last.op = "category" /\ last.res.raised = "")
          => \A r \in 1..Len(last.res.rows) :
                last.res.rows[r].vals["market_share_pct"]
                    = round(Mul(Div(GroupSum(data, "Product_Category",
                                             last.res.rows[r].key),
                                    TotalSum(data)), 100))
    /\ (last.op = "sales_rep" /\ last.res.raised = ""
            /\ "efficiency" \in Range(last.res.cols))
          => \A r \in 1..Len(last.res.rows) :
                last.res.rows[r].vals["efficiency"]
                    = round(Div(GroupSum(data, "Sales_Rep", last.res.rows[r].key),
                                F(Scale * Cardinality(RecordsWith(data, "Sales_Rep",
                                                      last.res.rows[r].key)))))

----------------------------------------------------------------------------
(* C14 *)

\* The empty views of the report in hand.
EmptyViews == {k \in DOMAIN last.res.views : empty(last.res.views[k])}

\* C14 (as claimed): a consumer given a report with an empty view neither
\* shows nor reads that view, catches no error and does not fall back to
\* CSV.
C14_EmptyViewSkippedWithoutError ==
    (HasReport /\ out.by # "none" /\ EmptyViews # {})
        => /\ out.shown \cap EmptyViews = {}
           /\ out.read \cap EmptyViews = {}
           /\ out.raised = ""
           /\ ~out.fallback

----------------------------------------------------------------------------
(* C17 *)

\* The table clean_data returned to the run.
Cleaned == "clean" \in Range(stages) /\ data # None

\* C17 (as claimed): Profit is there only with its three inputs,
\* Profit_Margin only with Profit, and the margin of a record whose
\* Sales_Amount is 0 is missing, not an infinity the division gave.
C17_MarginUndefinedForZeroAmount ==
    Cleaned =>
        /\ "Profit" \in data.cols
              => {"Sales_Amount", "Unit_Cost", "Quantity_Sold"} \subseteq data.cols
        /\ "Profit_Margin" \in data.cols => "Profit" \in data.cols
        /\ "Profit_Margin" \in data.cols
              => \A i \in 1..Len(data.rows) :
                    data.rows[i].Sales_Amount = F(0)
                        => data.rows[i].Profit_Margin = NaN

----------------------------------------------------------------------------
(* C18 *)

\* The stages of a run, in the order of the statements of run.
StageOrder == <<"load", "clean", "analyze", "static", "interactive", "export">>

Entered(stage) == stage \in Range(stages)

\* The stages that need the prepared data.
AfterCleaning == {"analyze", "static", "interactive", "export"}

\* Loading fails: the file cannot be read or lacks a required column.
LoadingFails == env.file = None \/ required_cols \ env.file.cols # {}

\* Cleaning leaves no record.
CleaningYieldsNothing == table_empty(clean_data(env.file))

\* C18: in every run the stages entered follow the order load, clean,
\* analyze, static charts, interactive charts, export, each at most once;
\* analysis, charts and export are entered only after load_csv returned a
\* table and clean_data a non-empty one, charts and export only after the
\* analysis; and a run whose loading fails or whose cleaning yields nothing
\* enters none of them.
C18_StagesInOrder ==
    /\ \A i, j \in 1..Len(stages) :
          i < j => IndexOf(StageOrder, stages[i]) < IndexOf(StageOrder, stages[j])
    /\ \A s \in AfterCleaning :
          Entered(s) => /\ Entered("load") /\ raw_data # None
                        /\ Entered("clean") /\ data # None /\ ~table_empty(data)
    /\ \A s \in {"static", "interactive", "export"} : Entered(s) => Entered("analyze")
    /\ Entered("clean") => Entered("load")
    /\ Entered("interactive") => env.HAS_PLOTLY
    /\ (~env.file_path \/ LoadingFails \/ CleaningYieldsNothing)
          => \A s \in AfterCleaning : ~Entered(s)
    /\ (pc = "returned" /\ env.file_path /\ LoadingFails) => stages = <<"load">>

\* C18 happens: a run that went through every stage and returned.
C18_Witness ==
    /\ pc = "returned"
    /\ stages = StageOrder


====
